---- MODULE Spec2Model ----
(***************************************************************************)
(* Model of app.py: the /species search, the /api/search-suggestions       *)
(* autocomplete and the /register handler of the NZ wildlife application.  *)
(*                                                                         *)
(* Text is a sequence of code points (97 = "a", 65 = "A", 32 = " ",        *)
(* 37 = "%", 95 = "_", 201 / 233 = upper / lower case E acute).  SQL NULL  *)
(* and Python None are the one-element sequence <<-1>>, which is no text.  *)
(***************************************************************************)
EXTENDS Integers, Sequences, FiniteSets, TLC

VARIABLES store, request, results, response, users, form, pc, pending

vars == <<store, request, results, response, users, form, pc, pending>>

NULL == <<-1>>

----------------------------------------------------------------------------
(* Text primitives of Python and of SQLite.                                 *)

Min(a, b) == IF a <= b THEN a ELSE b

\* str.lower() of one code point: Python lower-cases all of Unicode; the
\* Latin-1 capitals of the model's alphabet are 65..90, 192..214, 216..222.
PyLowerChar(c) ==
    IF (c >= 65 /\ c <= 90) \/ (c >= 192 /\ c <= 214) \/ (c >= 216 /\ c <= 222)
    THEN c + 32 ELSE c

PyLower(s) == [i \in 1..Len(s) |-> PyLowerChar(s[i])]

\* SQLite's built-in LOWER() and LIKE fold the ASCII letters only.
SqlLowerChar(c) == IF c >= 65 /\ c <= 90 THEN c + 32 ELSE c

SqlLower(s) == IF s = NULL THEN NULL ELSE [i \in 1..Len(s) |-> SqlLowerChar(s[i])]

IsSpace(c) == c \in {9, 10, 11, 12, 13, 28, 29, 30, 31, 32, 133, 160}

\* str.strip(): drops the leading and the trailing whitespace.
PyStrip(s) ==
    LET keep == {i \in 1..Len(s) : ~IsSpace(s[i])}
    IN  IF keep = {} THEN <<>>
        ELSE LET lo == CHOOSE i \in keep : \A j \in keep : i <= j
                 hi == CHOOSE i \in keep : \A j \in keep : j <= i
             IN  SubSeq(s, lo, hi)

\* Python's `q in s` on two str values: q occurs in s as a contiguous run.
PyIn(q, s) == \E i \in 0..(Len(s) - Len(q)) : SubSeq(s, i + 1, i + Len(q)) = q

\* Python truthiness of a str-or-None value.
Truthy(s) == s # NULL /\ s # <<>>

RECURSIVE LikeFrom(_, _, _, _)
\* SQLite's LIKE from position i of the pattern and j of the text: "%" is any
\* run of characters, "_" any one character, letters compare ASCII-case-blind.
LikeFrom(p, s, i, j) ==
    IF i > Len(p) THEN j > Len(s)
    ELSE IF p[i] = 37 THEN \E k \in j..(Len(s) + 1) : LikeFrom(p, s, i + 1, k)
    ELSE IF j > Len(s) THEN FALSE
    ELSE IF p[i] = 95 \/ SqlLowerChar(p[i]) = SqlLowerChar(s[j])
         THEN LikeFrom(p, s, i + 1, j + 1)
    ELSE FALSE

\* `x LIKE p` used as a condition: a NULL operand yields NULL, which is not true.
Like(x, p) == x # NULL /\ LikeFrom(p, x, 1, 1)

\* The bound parameters '%' + q + '%' and q + '%'.
Contains(q) == <<37>> \o q \o <<37>>

StartsWith(q) == q \o <<37>>

RECURSIVE TextLess(_, _)
\* BINARY collation of two texts: code point by code point, shorter first.
TextLess(a, b) ==
    IF b = <<>> THEN FALSE
    ELSE IF a = <<>> THEN TRUE
    ELSE IF a[1] # b[1] THEN a[1] < b[1]
    ELSE TextLess(Tail(a), Tail(b))

\* ORDER BY ... ASC on a nullable text column: NULL sorts before every text.
SqlLess(a, b) ==
    IF b = NULL THEN FALSE
    ELSE IF a = NULL THEN TRUE
    ELSE TextLess(a, b)

Take(s, n) == SubSeq(s, 1, Min(n, Len(s)))

RECURSIVE Distinct(_)
\* SELECT DISTINCT over a scan: a row equal to an earlier one is dropped.
Distinct(s) ==
    IF s = <<>> THEN <<>>
    ELSE LET front == Distinct(SubSeq(s, 1, Len(s) - 1))
             last  == s[Len(s)]
         IN  IF \E i \in 1..Len(front) : front[i] = last THEN front
             ELSE Append(front, last)

\* A row with its ORDER BY key: the CASE term (rank) and species_name.
Keyed(rank, row) == [rank |-> rank, row |-> row]

KeyLess(a, b) ==
    \/ a.rank < b.rank
    \/ (a.rank = b.rank /\ SqlLess(a.row[1], b.row[1]))

\* One step of the sorter: x goes behind every row whose key is not greater,
\* so rows of equal key stay in the order the scan produced them.
InsertRow(sorted, x) ==
    LET k == Cardinality({i \in 1..Len(sorted) : ~KeyLess(x, sorted[i])})
    IN  SubSeq(sorted, 1, k) \o <<x>> \o SubSeq(sorted, k + 1, Len(sorted))

\* Mutant of OrderBy: the ORDER BY clause forgotten, rows stay in scan order.
OrderByNothing(keyed) == keyed

RECURSIVE OrderBy(_)
OrderBy(keyed) ==
    IF keyed = <<>> THEN <<>>
    ELSE InsertRow(OrderBy(SubSeq(keyed, 1, Len(keyed) - 1)), keyed[Len(keyed)])

Rows(keyed) == [i \in 1..Len(keyed) |-> keyed[i].row]

----------------------------------------------------------------------------
(* The record store: the rows of the species table in their native order.   *)

Row(id, species_name, scientific_name, species_type, origin_status, predator, prey, status, family, numbers) ==
    [id |-> id, species_name |-> species_name, scientific_name |-> scientific_name,
     species_type |-> species_type, origin_status |-> origin_status,
     predator |-> predator, prey |-> prey, status |-> status,
     family |-> family, numbers |-> numbers]

\* Rows the small stores are drawn from: case variants, a shared species_name,
\* two rows equal on the four suggestion columns, NULL columns, a match in a
\* column outside the first three, non-ASCII capitals, an inner blank.
Pool ==
    { Row(1, <<97, 98>>, <<66, 97>>, <<97>>, <<98>>, NULL, NULL, NULL, <<98>>, NULL),
      Row(2, <<66, 97>>, <<97, 98>>, <<98>>, NULL, NULL, NULL, NULL, NULL, NULL),
      Row(3, <<97, 98>>, <<98>>, <<97>>, NULL, NULL, NULL, NULL, <<97>>, NULL),
      Row(4, <<97, 98>>, <<66, 97>>, <<97>>, NULL, <<98>>, NULL, NULL, <<98>>, <<98>>),
      Row(5, <<98>>, NULL, <<98>>, NULL, <<97>>, NULL, NULL, NULL, NULL),
      Row(6, NULL, <<97>>, NULL, NULL, NULL, NULL, NULL, <<97>>, NULL),
      Row(7, <<201>>, <<233>>, <<98>>, NULL, NULL, NULL, NULL, NULL, NULL),
      Row(8, <<98, 32, 97>>, <<98, 32, 97>>, <<97>>, NULL, NULL, NULL, NULL, NULL, NULL) }

MaxSmall == 2

MaxStore == 21

\* Row i of the large stores: pairwise different on the four suggestion columns.
BigRow(i) ==
    Row(100 + i,
        <<  <<97, 97>>, <<97, 98>>, <<65, 98>>  >>[((i - 1) % 3) + 1],
        <<  <<66, 97>>, <<98>>, <<97>>  >>[(((i - 1) \div 3) % 3) + 1],
        <<  <<97>>, <<98>>  >>[(((i - 1) \div 9) % 2) + 1],
        NULL, NULL, NULL, NULL,
        <<  NULL, <<98>>  >>[(((i - 1) \div 18) % 2) + 1],
        NULL)

Reverse(s) == [i \in 1..Len(s) |-> s[Len(s) + 1 - i]]

SmallStores ==
    UNION { {s \in [1..n -> Pool] : \A i, j \in 1..n : i # j => s[i].id # s[j].id}
            : n \in 0..MaxSmall }

BigStores ==
    UNION { { [i \in 1..n |-> BigRow(i)], Reverse([i \in 1..n |-> BigRow(i)]) }
            : n \in (MaxSmall + 1)..MaxStore }

Stores == SmallStores \cup BigStores

\* Values of the `name` and `q` request parameters ("" when the parameter is absent).
Queries == { <<>>, <<65>>, <<98>>, <<32, 97>>, <<95, 98>>, <<201>>, <<122>> }

----------------------------------------------------------------------------
(* GET /species                                                             *)

NoField == "NULL"

SearchColumns ==
    << "species_name", "scientific_name", "species_type", "origin_status",
       "predator", "prey", "status", "family", "numbers" >>

ColumnLabel ==
    << "Species Name", "Scientific Name", "Species Type", "Origin Status",
       "Predator", "Prey", "Status", "Family", "Numbers" >>

\* WHEN LOWER(s.<column>) LIKE '%q%'
ColumnMatches(r, k, q) == Like(SqlLower(r[SearchColumns[k]]), Contains(q))

\* Mutant of WhereMatches: only species_name, scientific_name, species_type
\* and family (columns 1, 2, 3 and 8) are searched.
WhereMatchesFour(r, q) == \E k \in {1, 2, 3, 8} : ColumnMatches(r, k, q)

\* The WHERE clause: the OR of the nine column tests.
WhereMatches(r, q) == \E k \in 1..Len(SearchColumns) : ColumnMatches(r, k, q)

\* Mutant of MatchedField: the last WHEN that is true decides.
MatchedFieldLast(r, q) ==
    IF \E k \in 1..Len(SearchColumns) : ColumnMatches(r, k, q)
    THEN ColumnLabel[CHOOSE k \in 1..Len(SearchColumns) :
                        /\ ColumnMatches(r, k, q)
                        /\ \A j \in (k + 1)..Len(SearchColumns) : ~ColumnMatches(r, j, q)]
    ELSE NoField

\* The CASE expression: the label of the first WHEN that is true, else NULL.
MatchedField(r, q) ==
    IF \E k \in 1..Len(SearchColumns) : ColumnMatches(r, k, q)
    THEN ColumnLabel[CHOOSE k \in 1..Len(SearchColumns) :
                        /\ ColumnMatches(r, k, q)
                        /\ \A j \in 1..(k - 1) : ~ColumnMatches(r, j, q)]
    ELSE NoField

\* SELECT DISTINCT s.*, CASE ... END AS matched_field FROM species s WHERE ...
\* There is no ORDER BY and no LIMIT: the rows come in scan order.
SearchRows(s, q) ==
    LET hit(r) == WhereMatches(r, q)
        kept   == SelectSeq(s, hit)
    IN  Distinct([i \in 1..Len(kept) |->
                    [row |-> kept[i], matched_field |-> MatchedField(kept[i], q)]])

\* Mutant of AllRows: the statement with ORDER BY species_name added.
AllRowsByName(s) ==
    LET sorted == OrderBy([i \in 1..Len(s) |-> Keyed(1, <<s[i].species_name, i>>)])
    IN  [i \in 1..Len(s) |-> [row |-> s[sorted[i].row[2]], matched_field |-> NoField]]

\* SELECT *, NULL as matched_field FROM species
AllRows(s) == [i \in 1..Len(s) |-> [row |-> s[i], matched_field |-> NoField]]

Ok(body) == [kind |-> "ok", body |-> body, error |-> "none"]

\* An exception that leaves the view function: Flask answers 500.
Raised(error) == [kind |-> "exception", body |-> <<>>, error |-> error]

\* The rows species() fetches from store s for the request parameter `name`.
SpeciesRows(s, name) ==
    IF PyLower(name) # <<>> THEN SearchRows(s, PyLower(name)) ELSE AllRows(s)

\* species(): dbOk = FALSE is a store whose connect or execute raises
\* sqlite3.OperationalError; the handler has no try block around either.
Species(name, dbOk) ==
    /\ request' = [endpoint |-> "species", raw |-> name, q |-> PyLower(name),
                   show_all |-> FALSE, dbOk |-> dbOk]
    /\ results' = IF dbOk THEN SpeciesRows(store, name) ELSE <<>>
    /\ response' = IF dbOk THEN Ok(SpeciesRows(store, name))
                   ELSE Raised("OperationalError")
    /\ UNCHANGED <<store, users, form, pc, pending>>

----------------------------------------------------------------------------
(* GET /api/search-suggestions                                              *)

\* SELECT species_name, scientific_name, species_type, family: row[0]..row[3]
\* of the code are <<1>>..<<4>> here.
Columns4(r) == <<r.species_name, r.scientific_name, r.species_type, r.family>>

Project(s) == [i \in 1..Len(s) |-> Columns4(s[i])]

ShowAllRowLimit == 20

ShowAllLimit == 15

QueryRowLimit == 10

QueryLimit == 10

\* SELECT DISTINCT ... FROM species ORDER BY species_name LIMIT 20
\* (no CASE term: every row has the same rank).
ShowAllRows(s) ==
    LET rows == Distinct(Project(s))
    IN  Take(Rows(OrderBy([i \in 1..Len(rows) |-> Keyed(1, rows[i])])), ShowAllRowLimit)

\* WHERE LOWER(species_name) LIKE ? OR LOWER(scientific_name) LIKE ?
\*    OR LOWER(species_type) LIKE ? OR LOWER(family) LIKE ?
SuggestWhere(row, q) ==
    \E k \in 1..4 : Like(SqlLower(row[k]), Contains(q))

\* Mutant of Rank: the two WHEN arms in the other order.
RankScientificFirst(row, q) ==
    IF Like(SqlLower(row[2]), StartsWith(q)) THEN 1
    ELSE IF Like(SqlLower(row[1]), StartsWith(q)) THEN 2
    ELSE 3

\* CASE WHEN LOWER(species_name) LIKE 'q%' THEN 1
\*      WHEN LOWER(scientific_name) LIKE 'q%' THEN 2 ELSE 3 END
Rank(row, q) ==
    IF Like(SqlLower(row[1]), StartsWith(q)) THEN 1
    ELSE IF Like(SqlLower(row[2]), StartsWith(q)) THEN 2
    ELSE 3

\* SELECT DISTINCT ... WHERE ... ORDER BY CASE ... END, species_name LIMIT 10
QueryRows(s, q) ==
    LET hit(row) == SuggestWhere(row, q)
        rows == Distinct(SelectSeq(Project(s), hit))
    IN  Take(Rows(OrderBy([i \in 1..Len(rows) |-> Keyed(Rank(rows[i], q), rows[i])])),
             QueryRowLimit)

\* str(x) inside an f-string: None prints as "None".
Fmt(x) == IF x = NULL THEN <<78, 111, 110, 101>> ELSE x

\* f'{row[2]} - {row[3]}' if row[3] else row[2]
TypeFamily(row) ==
    IF Truthy(row[4]) THEN Fmt(row[3]) \o <<32, 45, 32>> \o Fmt(row[4]) ELSE row[3]

\* f'Scientific Name - {row[2]}'
SciType(row) ==
    <<83, 99, 105, 101, 110, 116, 105, 102, 105, 99, 32,
      78, 97, 109, 101, 32, 45, 32>> \o Fmt(row[3])

\* f'Type: {row[2]}'
TypeOnly(row) == <<84, 121, 112, 101, 58, 32>> \o Fmt(row[3])

Entry(text, type) == [text |-> text, type |-> type]

\* The body of the show-all loop for one row (lines 296-305).
ShowAllEntries(row) ==
    <<Entry(row[1], TypeFamily(row))>>
    \o (IF Truthy(row[2]) /\ row[2] # row[1]
        THEN <<Entry(row[2], SciType(row))>> ELSE <<>>)

\* row[0].lower(), row[1].lower() and row[2].lower() are all evaluated for
\* every fetched row; on None each raises AttributeError.
RowRaises(row) == row[1] = NULL \/ row[2] = NULL \/ row[3] = NULL

\* The body of the query loop for one row (lines 333-350), when it does not raise.
QueryEntries(row, q) ==
    (IF PyIn(q, PyLower(row[1]))
     THEN <<Entry(row[1], TypeFamily(row))>> ELSE <<>>)
    \o (IF PyIn(q, PyLower(row[2])) /\ row[2] # row[1]
        THEN <<Entry(row[2], SciType(row))>> ELSE <<>>)
    \o (IF PyIn(q, PyLower(row[3]))
        THEN <<Entry(row[1], TypeOnly(row))>> ELSE <<>>)

RECURSIVE ShowAllLoop(_)
ShowAllLoop(rows) ==
    IF rows = <<>> THEN <<>>
    ELSE ShowAllEntries(Head(rows)) \o ShowAllLoop(Tail(rows))

RECURSIVE QueryLoop(_, _)
QueryLoop(rows, q) ==
    IF rows = <<>> THEN <<>>
    ELSE QueryEntries(Head(rows), q) \o QueryLoop(Tail(rows), q)

\* Mutant of ShowAllResponse: the rows capped to 15 before the loop, and the
\* entries left as built.
ShowAllResponseCapFirst(rows) == Ok(ShowAllLoop(Take(rows, ShowAllLimit)))

\* suggestions[:15] and suggestions[:10]
ShowAllResponse(rows) == Ok(Take(ShowAllLoop(rows), ShowAllLimit))

\* Mutant of QueryResponse: the [:10] slice forgotten.
QueryResponseUncut(rows, q) ==
    IF \E i \in 1..Len(rows) : RowRaises(rows[i]) THEN Raised("AttributeError")
    ELSE Ok(QueryLoop(rows, q))

QueryResponse(rows, q) ==
    IF \E i \in 1..Len(rows) : RowRaises(rows[i]) THEN Raised("AttributeError")
    ELSE Ok(Take(QueryLoop(rows, q), QueryLimit))

\* query = request.args.get('q', '').lower().strip()
Normalize(raw) == PyStrip(PyLower(raw))

\* The rows search_suggestions() fetches from store s, and what it answers.
SuggestRows(s, raw, show_all) ==
    IF show_all \/ Len(Normalize(raw)) = 0 THEN ShowAllRows(s)
    ELSE QueryRows(s, Normalize(raw))

SuggestResponse(rows, raw, show_all) ==
    IF show_all \/ Len(Normalize(raw)) = 0 THEN ShowAllResponse(rows)
    ELSE QueryResponse(rows, Normalize(raw))

\* search_suggestions(): as in species(), nothing catches a failing store.
SearchSuggestions(raw, show_all, dbOk) ==
    /\ request' = [endpoint |-> "suggest", raw |-> raw, q |-> Normalize(raw),
                   show_all |-> show_all, dbOk |-> dbOk]
    /\ results' = IF dbOk THEN SuggestRows(store, raw, show_all) ELSE <<>>
    /\ response' = IF dbOk
                   THEN SuggestResponse(SuggestRows(store, raw, show_all), raw, show_all)
                   ELSE Raised("OperationalError")
    /\ UNCHANGED <<store, users, form, pc, pending>>

----------------------------------------------------------------------------
(* POST /register: one process per request, each with its own connection.   *)

NumRequests == 2

Procs == 1..NumRequests

IsLetter(c) == (c >= 65 /\ c <= 90) \/ (c >= 97 /\ c <= 122)

IsDigit(c) == c >= 48 /\ c <= 57

\* [a-zA-Z0-9._%+-]
IsLocalChar(c) == IsLetter(c) \/ IsDigit(c) \/ c \in {46, 95, 37, 43, 45}

\* [a-zA-Z0-9.-]
IsDomainChar(c) == IsLetter(c) \/ IsDigit(c) \/ c \in {46, 45}

\* re.match(r'^[a-zA-Z0-9._%+-]+@[a-zA-Z0-9.-]+\.[a-zA-Z]{2,}$', email):
\* "$" also matches just before one trailing newline.
EmailMatches(s) ==
    \E at \in 2..Len(s), dot \in 3..Len(s),
       end \in {Len(s)} \cup (IF Len(s) > 0 /\ s[Len(s)] = 10 THEN {Len(s) - 1} ELSE {}) :
        /\ s[at] = 64
        /\ \A i \in 1..(at - 1) : IsLocalChar(s[i])
        /\ dot >= at + 2
        /\ \A i \in (at + 1)..(dot - 1) : IsDomainChar(s[i])
        /\ s[dot] = 46
        /\ end >= dot + 2
        /\ \A i \in (dot + 1)..end : IsLetter(s[i])

\* The four validation returns of lines 158-175, in order; "ok" when none is taken.
Validate(f) ==
    IF ~Truthy(f.email) \/ ~Truthy(f.psw) \/ ~Truthy(f.psw_repeat) THEN "required"
    ELSE IF ~EmailMatches(f.email) THEN "bad_email"
    ELSE IF Len(f.psw) < 8 THEN "short_password"
    ELSE IF f.psw # f.psw_repeat THEN "mismatch"
    ELSE "ok"

Emails ==
    { <<97, 64, 98, 46, 99, 111>>, <<99, 64, 98, 46, 110, 122>>, <<97, 64, 98>>, NULL }

Passwords == { <<49, 50, 51, 52, 53, 54, 55, 56>>, <<49, 50, 51, 52, 53, 54, 55>> }

Forms ==
    [method : {"POST"}, email : Emails, psw : Passwords, psw_repeat : Passwords]
    \cup { [method |-> "GET", email |-> NULL, psw |-> NULL, psw_repeat |-> NULL] }

NoForm == [method |-> "none", email |-> NULL, psw |-> NULL, psw_repeat |-> NULL]

NoRow == [usernames |-> NULL, passwords |-> NULL]

\* generate_password_hash(password)
PasswordHash(password) == <<112, 98, 107, 100, 102, 50, 36>> \o password

Usernames(table) == {table[i].usernames : i \in 1..Len(table)}

\* The RESERVED lock of SQLite: held by a connection from its INSERT to its commit.
WriteLocked(p) == \E o \in Procs : o # p /\ pending[o] # NoRow

\* Mutant of UniqueViolated: the table created without the UNIQUE constraint.
UniqueNotEnforced(table, email) == FALSE

\* usernames TEXT UNIQUE NOT NULL (init_db): the INSERT raises IntegrityError
\* when the committed table already holds the value.
UniqueViolated(table, email) == email \in Usernames(table)

\* register() up to the try block: the method test and the validation.
RegisterBegin(p, f) ==
    /\ pc[p] = "idle"
    /\ form' = [form EXCEPT ![p] = f]
    /\ pc' = [pc EXCEPT ![p] =
                IF f.method = "POST" /\ Validate(f) = "ok" THEN "select" ELSE "done"]
    /\ UNCHANGED <<store, request, results, response, users, pending>>

\* SELECT usernames FROM Users WHERE usernames = ?  and the `if existing_user`.
RegisterSelect(p) ==
    /\ pc[p] = "select"
    /\ pc' = [pc EXCEPT ![p] =
                IF form[p].email \in Usernames(users) THEN "done" ELSE "insert"]
    /\ UNCHANGED <<store, request, results, response, users, form, pending>>

\* INSERT INTO Users ...: with the lock taken by another connection it raises
\* OperationalError once the busy timeout ends (the except branch then repeats
\* it on `users`); a second OperationalError, and any IntegrityError, reach
\* the outer `except sqlite3.Error`.
RegisterInsert(p) ==
    /\ pc[p] \in {"insert", "insert_again"}
    /\ IF WriteLocked(p)
       THEN /\ pc' = [pc EXCEPT ![p] = IF pc[p] = "insert" THEN "insert_again" ELSE "done"]
            /\ UNCHANGED pending
       ELSE IF UniqueViolated(users, form[p].email)
       THEN /\ pc' = [pc EXCEPT ![p] = "done"]
            /\ UNCHANGED pending
       ELSE /\ pc' = [pc EXCEPT ![p] = "commit"]
            /\ pending' = [pending EXCEPT ![p] =
                             [usernames |-> form[p].email,
                              passwords |-> PasswordHash(form[p].psw)]]
    /\ UNCHANGED <<store, request, results, response, users, form>>

\* get_db().commit(): the pending row becomes visible and the lock is released.
RegisterCommit(p) ==
    /\ pc[p] = "commit"
    /\ users' = Append(users, pending[p])
    /\ pending' = [pending EXCEPT ![p] = NoRow]
    /\ pc' = [pc EXCEPT ![p] = "done"]
    /\ UNCHANGED <<store, request, results, response, form>>

----------------------------------------------------------------------------
(* Specifications                                                           *)

NoRequest == [endpoint |-> "none", raw |-> <<>>, q |-> <<>>, show_all |-> FALSE, dbOk |-> TRUE]

NoResponse == [kind |-> "none", body |-> <<>>, error |-> "none"]

Init ==
    /\ store \in Stores
    /\ request = NoRequest
    /\ results = <<>>
    /\ response = NoResponse
    /\ users = <<>>
    /\ form = [p \in Procs |-> NoForm]
    /\ pc = [p \in Procs |-> "idle"]
    /\ pending = [p \in Procs |-> NoRow]

Next ==
    \/ \E name \in Queries, dbOk \in BOOLEAN : Species(name, dbOk)
    \/ \E raw \in Queries, show_all \in BOOLEAN, dbOk \in BOOLEAN :
          SearchSuggestions(raw, show_all, dbOk)

Spec == Init /\ [][Next]_vars

InitRegister ==
    /\ store = <<>>
    /\ request = NoRequest
    /\ results = <<>>
    /\ response = NoResponse
    /\ users \in { <<>>,
                   << [usernames |-> <<97, 64, 98, 46, 99, 111>>,
                       passwords |-> PasswordHash(<<49, 50, 51, 52, 53, 54, 55, 56>>)] >> }
    /\ form = [p \in Procs |-> NoForm]
    /\ pc = [p \in Procs |-> "idle"]
    /\ pending = [p \in Procs |-> NoRow]

NextRegister ==
    \E p \in Procs :
        \/ \E f \in Forms : RegisterBegin(p, f)
        \/ RegisterSelect(p)
        \/ RegisterInsert(p)
        \/ RegisterCommit(p)

SpecRegister == InitRegister /\ [][NextRegister]_vars

----------------------------------------------------------------------------
(* Properties of the search endpoints (checked under Spec)                  *)

SpeciesServed == request.endpoint = "species" /\ request.dbOk

SuggestServed == request.endpoint = "suggest" /\ request.dbOk

Returned(r, label) ==
    \E j \in 1..Len(response.body) :
        response.body[j] = [row |-> r, matched_field |-> label]

CaseBlindLeq(a, b) == ~SqlLess(SqlLower(b), SqlLower(a))

\* C2 as stated: for an empty query /species returns min(50, |store|) records,
\* ascending by species_name compared case-blind, each with no matched field.
C2_Original ==
    (SpeciesServed /\ PyLower(request.raw) = <<>>) =>
        /\ Len(response.body) = Min(50, Len(store))
        /\ \A i, j \in 1..Len(response.body) :
              i < j => CaseBlindLeq(response.body[i].row.species_name,
                                    response.body[j].row.species_name)
        /\ \A i \in 1..Len(response.body) : response.body[i].matched_field = NoField

\* C2 amended: for an empty query /species returns every record of the store
\* exactly once, in the store's row order (unsorted, with no page limit), each
\* with no matched field.
C2_AllRecords ==
    (SpeciesServed /\ PyLower(request.raw) = <<>>) =>
        /\ Len(response.body) = Len(store)
        /\ \A i \in 1..Len(store) :
              /\ response.body[i].row = store[i]
              /\ response.body[i].matched_field = NoField

\* An empty query served from a store whose rows are not in species_name order.
C2_Witness ==
    /\ SpeciesServed
    /\ PyLower(request.raw) = <<>>
    /\ Len(response.body) = Len(store)
    /\ \E i, j \in 1..Len(store) :
          i < j /\ SqlLess(store[j].species_name, store[i].species_name)

\* species_name starts with q, letters compared case-blind.
NamePrefix(name, q) ==
    /\ name # NULL
    /\ Len(q) <= Len(name)
    /\ PyLower(SubSeq(name, 1, Len(q))) = PyLower(q)

QueryMode == SuggestServed /\ ~request.show_all /\ Normalize(request.raw) # <<>>

\* C3 as stated: for a non-empty query, a record whose species_name starts with
\* the query precedes every matching record whose species_name does not, in the
\* /species results and in the rows /api/search-suggestions builds from.
C3_Original ==
    /\ (SpeciesServed /\ PyLower(request.raw) # <<>>) =>
          \A i, j \in 1..Len(response.body) :
              (/\ NamePrefix(response.body[i].row.species_name, PyLower(request.raw))
               /\ ~NamePrefix(response.body[j].row.species_name, PyLower(request.raw)))
              => i < j
    /\ QueryMode =>
          \A i, j \in 1..Len(results) :
              (/\ NamePrefix(results[i][1], Normalize(request.raw))
               /\ ~NamePrefix(results[j][1], Normalize(request.raw)))
              => i < j

\* LOWER(species_name) LIKE 'q%': the prefix test of the ORDER BY clause.
LikePrefix(name, q) == Like(SqlLower(name), StartsWith(q))

\* C3 amended: among the rows /api/search-suggestions fetches in query mode, a
\* row whose species_name matches the LIKE pattern q% (ASCII case-blind, % and
\* _ of q being wildcards) precedes every row whose species_name does not;
\* /species ranks nothing.
C3_SuggestionRank ==
    QueryMode =>
        \A i, j \in 1..Len(results) :
            (/\ LikePrefix(results[i][1], Normalize(request.raw))
             /\ ~LikePrefix(results[j][1], Normalize(request.raw)))
            => i < j

\* A prefix row was fetched ahead of a non-prefix row that precedes it both in
\* the store and in species_name order.
C3_Witness ==
    /\ QueryMode
    /\ response.kind = "ok"
    /\ \E i, j \in 1..Len(results) :
          /\ i < j
          /\ LikePrefix(results[i][1], Normalize(request.raw))
          /\ ~LikePrefix(results[j][1], Normalize(request.raw))
          /\ SqlLess(results[j][1], results[i][1])
          /\ \E a, b \in 1..Len(store) :
                a < b /\ Columns4(store[a]) = results[j] /\ Columns4(store[b]) = results[i]

\* C4: in query mode an answer holds at most 10 entries, and it is the first
\* 10 (or all, if fewer) of the entries the fetched rows expand to, in the
\* order they were generated.
C4_SuggestionCap ==
    (QueryMode /\ response.kind = "ok") =>
        LET entries == QueryLoop(results, Normalize(request.raw))
        IN  /\ Len(response.body) <= 10
            /\ Len(response.body) = Min(10, Len(entries))
            /\ \A k \in 1..Len(response.body) : response.body[k] = entries[k]

\* Fewer than 10 fetched rows expand to more than 10 entries, and 10 were
\* answered: the cut fell on the entries, not on the rows.
C4_Witness ==
    /\ QueryMode
    /\ response.kind = "ok"
    /\ Len(results) < 10
    /\ Len(QueryLoop(results, Normalize(request.raw))) > 10
    /\ Len(response.body) = 10

FourColumns == <<"species_name", "scientific_name", "species_type", "family">>

FourLabels == <<"Species Name", "Scientific Name", "Species Type", "Family">>

\* q occurs in the text, letters compared case-blind.
OccursIn(q, text) == text # NULL /\ PyIn(PyLower(q), PyLower(text))

InResult(r) == \E j \in 1..Len(response.body) : response.body[j].row = r

LabelOf(r) ==
    (CHOOSE x \in {response.body[j] : j \in 1..Len(response.body)} : x.row = r).matched_field

\* C5 as stated: for a non-empty query a record is returned exactly when the
\* normalized query occurs, case-blind, in one of species_name, scientific_name,
\* species_type, family, and its matched field is the first of these four
\* that contains the query.
C5_Original ==
    (SpeciesServed /\ Normalize(request.raw) # <<>>) =>
        \A i \in 1..Len(store) :
            LET hits == {k \in 1..4 :
                           OccursIn(Normalize(request.raw), store[i][FourColumns[k]])}
            IN  /\ InResult(store[i]) <=> hits # {}
                /\ InResult(store[i]) =>
                      \E k \in hits : /\ \A j \in hits : k <= j
                                      /\ LabelOf(store[i]) = FourLabels[k]

NineColumns ==
    << "species_name", "scientific_name", "species_type", "origin_status",
       "predator", "prey", "status", "family", "numbers" >>

NineLabels ==
    << "Species Name", "Scientific Name", "Species Type", "Origin Status",
       "Predator", "Prey", "Status", "Family", "Numbers" >>

\* C5 amended: for a non-empty query a record is returned exactly when the
\* lower-cased, untrimmed query, as the LIKE pattern %q% (ASCII case-blind, %
\* and _ of q being wildcards), matches one of the nine columns species_name,
\* scientific_name, species_type, origin_status, predator, prey, status,
\* family, numbers; its matched field is the first of the nine that matches.
C5_NineColumns ==
    (SpeciesServed /\ PyLower(request.raw) # <<>>) =>
        \A i \in 1..Len(store) :
            LET hits == {k \in 1..9 :
                           Like(SqlLower(store[i][NineColumns[k]]),
                                <<37>> \o PyLower(request.raw) \o <<37>>)}
            IN  /\ InResult(store[i]) <=> hits # {}
                /\ InResult(store[i]) =>
                      \E k \in hits : /\ \A j \in hits : k <= j
                                      /\ LabelOf(store[i]) = NineLabels[k]

\* A record was returned for a match in a column outside the four, and one
\* whose only match is in a later column than its species_name.
C5_Witness ==
    /\ SpeciesServed
    /\ PyLower(request.raw) # <<>>
    /\ \E i \in 1..Len(store) :
          /\ InResult(store[i])
          /\ LabelOf(store[i]) = "Predator"
          /\ \A k \in 1..4 : ~OccursIn(PyLower(request.raw), store[i][FourColumns[k]])

\* C6 as stated: /api/search-suggestions answers a suggestions list, without
\* failing, also when fetched rows hold NULL columns, and a NULL column yields
\* no entry.
C6_NullTolerated ==
    SuggestServed =>
        /\ response.kind = "ok"
        /\ \A k \in 1..Len(response.body) : response.body[k].text # NULL

\* C7 as stated: when the store cannot be read, /species answers an empty
\* result and /api/search-suggestions an empty suggestions list; no exception
\* leaves the handler.
C7_DegradeToEmpty ==
    (request.endpoint \in {"species", "suggest"} /\ ~request.dbOk) =>
        /\ response.kind = "ok"
        /\ response.body = <<>>

ShowAllMode == SuggestServed /\ (request.show_all \/ Normalize(request.raw) = <<>>)

NameEntry(r) == Entry(r.species_name, TypeFamily(Columns4(r)))

ScientificEntry(r) == Entry(r.scientific_name, SciType(Columns4(r)))

InBody(e) == \E k \in 1..Len(response.body) : response.body[k] = e

Candidates == {Columns4(store[i]) : i \in 1..Len(store)}

Reorderings(s) ==
    { [i \in 1..Len(s) |-> IF i = k THEN s[k + 1] ELSE IF i = k + 1 THEN s[k] ELSE s[i]]
      : k \in 1..(Len(s) - 1) } \cup { Reverse(s) }

\* What the served request answers on store s.
AnswerOn(s) ==
    IF request.endpoint = "species" THEN Ok(SpeciesRows(s, request.raw))
    ELSE SuggestResponse(SuggestRows(s, request.raw, request.show_all),
                         request.raw, request.show_all)

RankOf(row) == IF ShowAllMode THEN 1 ELSE Rank(row, Normalize(request.raw))

\* C9 as stated: the answer of /species and of /api/search-suggestions is the
\* same, element for element, on every row order of the same records, rows of
\* equal rank being ordered by species_name compared case-blind.
C9_Original ==
    (SpeciesServed \/ SuggestServed) =>
        /\ \A s2 \in Reorderings(store) : AnswerOn(s2) = response
        /\ SuggestServed =>
              \A i, j \in 1..Len(results) :
                  (i < j /\ RankOf(results[i]) = RankOf(results[j]))
                  => CaseBlindLeq(results[i][1], results[j][1])

\* The rows a suggestion request selects, before ordering.
Selected ==
    IF ShowAllMode THEN Candidates
    ELSE {c \in Candidates : SuggestWhere(c, Normalize(request.raw))}

KeysDiffer ==
    \A a, b \in Selected :
        a # b => (RankOf(a) # RankOf(b) \/ a[1] # b[1])

\* C9 amended: the set of records /species returns for a query, each with its
\* matched field, is the same on every row order of the same records (their
\* order is the store's row order).  The rows /api/search-suggestions fetches
\* are ordered by rank, then by species_name compared by code point
\* (case-sensitively), and its answer is the same on every row order of the
\* same records whenever no two distinct selected rows share both rank and
\* species_name.
C9_OrderIndependence ==
    /\ SpeciesServed =>
          \A s2 \in Reorderings(store) :
              LET other == SpeciesRows(s2, request.raw)
              IN  /\ Len(other) = Len(response.body)
                  /\ {other[i] : i \in 1..Len(other)}
                     = {response.body[i] : i \in 1..Len(response.body)}
    /\ SuggestServed =>
          /\ \A i, j \in 1..Len(results) :
                i < j => \/ RankOf(results[i]) < RankOf(results[j])
                         \/ /\ RankOf(results[i]) = RankOf(results[j])
                            /\ ~SqlLess(results[j][1], results[i][1])
          /\ KeysDiffer =>
                \A s2 \in Reorderings(store) :
                    /\ SuggestRows(s2, request.raw, request.show_all) = results
                    /\ AnswerOn(s2) = response

\* Suggestions answered from rows with pairwise different keys that the store
\* holds in another order than the one fetched.
C9_Witness ==
    /\ SuggestServed
    /\ response.kind = "ok"
    /\ response.body # <<>>
    /\ KeysDiffer
    /\ \E i, j \in 1..Len(results), a, b \in 1..Len(store) :
          /\ i < j /\ b < a
          /\ Columns4(store[a]) = results[i]
          /\ Columns4(store[b]) = results[j]

----------------------------------------------------------------------------
(* Properties of /register (checked under SpecRegister)                     *)

NoDuplicateEmail(table) ==
    \A i, j \in 1..Len(table) : i # j => table[i].usernames # table[j].usernames

\* The form fails the validation: a field missing, the email not matching the
\* pattern, the password shorter than 8, or the two passwords differing.
Invalid(f) ==
    \/ ~Truthy(f.email) \/ ~Truthy(f.psw) \/ ~Truthy(f.psw_repeat)
    \/ ~EmailMatches(f.email)
    \/ Len(f.psw) < 8
    \/ f.psw # f.psw_repeat

\* C10: in every interleaving of register requests the users table never
\* holds one email twice, and no step of a request whose form is invalid, or
\* whose email is already in the table, changes the table.
C10_Register ==
    [][ /\ NoDuplicateEmail(users')
        /\ \A p \in Procs :
              (/\ pc'[p] # pc[p]
               /\ form'[p].method = "POST"
               /\ (Invalid(form'[p]) \/ form'[p].email \in Usernames(users)))
              => users' = users ]_vars

\* The race: a request that found its email free is about to insert it after
\* another request has committed the same email.
C10_Witness ==
    \E p \in Procs :
        /\ pc[p] \in {"insert", "insert_again"}
        /\ form[p].email \in Usernames(users)
        /\ NoDuplicateEmail(users)

====
